---- MODULE Spec2Model ----
(***************************************************************************)
(* A model of Organize (src/src/platereadertools.py, lines 8-73), the      *)
(* parser of tab-separated plate-reader exports.                           *)
(*                                                                         *)
(* A line of the file is a sequence of one-character strings, terminator   *)
(* included, as Python's file iteration yields it.  The loop body of       *)
(* Organize is one step of the model: it consumes one line and is either   *)
(* the header branch (line 35), the data branch (line 44) or neither.      *)
(* A float is a record: NaN, or a number.  Cell values are whole numbers;  *)
(* a time is held in units of 1/3600 hour, so that the conversion of line  *)
(* 53-55 stays in the integers.                                            *)
(***************************************************************************)
EXTENDS Integers, Sequences, FiniteSets, TLC

VARIABLES n_rows, n_columns, total_run_time, sampling_rate, n_time_points,
          prev_line, line, read, time_i, data_dict, time_dict, pc, error, i

vars == <<n_rows, n_columns, total_run_time, sampling_rate, n_time_points,
          prev_line, line, read, time_i, data_dict, time_dict, pc, error, i>>

\* The parser state proper: what a skipped line must leave alone.
parser == <<read, time_i, data_dict, time_dict, pc, error>>

-----------------------------------------------------------------------------
\* Bounds of the model.

\* The largest plate: n_rows * n_columns <= MaxCells.
MaxCells == 2
\* total_run_time ranges over 1..MaxRunTime (in units of half the sampling step).
MaxRunTime == 2
\* The longest file, in lines.
MaxLines == 4

-----------------------------------------------------------------------------
\* Strings, as Python's str methods compute them.

Min(a, b) == IF a < b THEN a ELSE b

\* s[0:n]
Prefix(s, n) == SubSeq(s, 1, Min(n, Len(s)))

\* s[:-1]
DropLast(s) == SubSeq(s, 1, Len(s) - 1)

\* sub in s
Contains(s, sub) ==
    \E k \in 1..(Len(s) - Len(sub) + 1) : SubSeq(s, k, k + Len(sub) - 1) = sub

\* The whitespace str.strip() removes, among the characters of the model.
Whitespace == {" ", "\t", "\n", "\r", "\f"}

\* s.strip()
Strip(s) ==
    LET keep == {k \in 1..Len(s) : s[k] \notin Whitespace}
    IN  IF keep = {} THEN <<>>
        ELSE LET first == CHOOSE k \in keep : \A m \in keep : k <= m
                 last  == CHOOSE k \in keep : \A m \in keep : m <= k
             IN  SubSeq(s, first, last)

\* s.split(sep), sep one character: always at least one token.
RECURSIVE Split(_, _)
Split(s, sep) ==
    LET at == {k \in 1..Len(s) : s[k] = sep}
    IN  IF at = {} THEN <<s>>
        ELSE LET k == CHOOSE x \in at : \A m \in at : x <= m
             IN  <<SubSeq(s, 1, k - 1)>> \o Split(SubSeq(s, k + 1, Len(s)), sep)

Digits == <<"0", "1", "2", "3", "4", "5", "6", "7", "8", "9">>

DigitValue(ch) == (CHOOSE k \in 1..10 : Digits[k] = ch) - 1

IsDigit(ch) == \E k \in 1..10 : Digits[k] = ch

RECURSIVE DecimalValue(_)
DecimalValue(s) ==
    IF s = <<>> THEN 0
    ELSE 10 * DecimalValue(DropLast(s)) + DigitValue(s[Len(s)])

\* Floats: NaN, or a number.
NaN == [nan |-> TRUE, val |-> 0]
Float(v) == [nan |-> FALSE, val |-> v]

\* Whether float(s) succeeds: float() strips whitespace and then wants a
\* numeral.  The characters of the model hold no sign, point or exponent, and
\* its words spell neither "inf" nor "nan", so a numeral is a run of digits.
CanFloat(s) ==
    LET t == Strip(s) IN t # <<>> /\ \A k \in 1..Len(t) : IsDigit(t[k])

\* float(s), where it succeeds.
FloatOf(s) == DecimalValue(Strip(s))

-----------------------------------------------------------------------------
\* The literals of Organize.

READ   == <<"R", "e", "a", "d">>
GFP    == <<"G", "F", "P">>
RFP    == <<"R", "F", "P">>
OD600  == <<"6", "0", "0">>
RATIO  == <<"R", "a", "t", "i", "o">>
TIME   == <<"T", "i", "m", "e">>
OVRFLW == <<"O", "V", "R", "F", "L", "W">>

-----------------------------------------------------------------------------
\* The classification of a line (lines 35 and 44).

\* Line 35: the header test.
IsHeader(l) ==
    \/ Prefix(l, 4) = READ
    \/ Prefix(l, 3) = GFP
    \/ Prefix(l, 3) = RFP
    \/ Prefix(l, 3) = OD600
    \/ Prefix(l, 5) = RATIO
    \/ Len(l) = 4
    \/ Len(l) = 8

\* A variant of IsDataTest without the test for "Time".
IsDataTestNoTime(l) == l # <<"\n">>

\* A variant of IsDataTest without the test for the blank line.
IsDataTestNoBlank(l) == ~Contains(l, TIME)

\* Line 44: the test of the elif, reached only when line 35 is false.
IsDataTest(l) == l # <<"\n">> /\ ~Contains(l, TIME)

IsData(l) == ~IsHeader(l) /\ IsDataTest(l)

IsSkipped(l) == ~IsHeader(l) /\ ~IsDataTest(l)

\* Line 37: the channel name of a header line.
ReadName(l) == DropLast(l)

\* Line 45: the tokens of a data line.
Element(l) == Split(Strip(l), "\t")

-----------------------------------------------------------------------------
\* The arrays (lines 27, 39-42).

\* A variant of NTimePoints that rounds up instead of down.
NTimePointsRoundedUp(run_time, rate) == (run_time + rate - 1) \div rate

\* Line 27: int(total_run_time/sampling_rate), both positive.
NTimePoints(run_time, rate) == run_time \div rate

\* Lines 40, 42: np.zeros(n_time_points+1), filled with NaN.
FreshTime == [t \in 0..((n_time_points + 1) - 1) |-> NaN]

\* Lines 39, 41: np.zeros((n_rows, n_columns, n_time_points+1)), filled with NaN.
FreshGrid ==
    [x \in (0..(n_rows - 1)) \X (0..(n_columns - 1)) \X (0..((n_time_points + 1) - 1))
        |-> NaN]

\* dict[key] = value
Put(dict, key, value) ==
    [k \in (DOMAIN dict) \cup {key} |-> IF k = key THEN value ELSE dict[k]]

\* A variant of Allocate that keeps the arrays of a name already bound.
AllocateOnce(dict, key, fresh) ==
    IF key \in DOMAIN dict THEN dict ELSE Put(dict, key, fresh)

\* Lines 39-42: the header branch binds the channel name to a fresh array,
\* whether or not the name is bound already.
Allocate(dict, key, fresh) == Put(dict, key, fresh)

\* The local names read and time_i before their first assignment.
NoRead == <<>>
Unbound == -2

-----------------------------------------------------------------------------
\* The lines a file is drawn from.

RECURSIVE JoinTabs(_)
JoinTabs(tokens) ==
    IF Len(tokens) = 1 THEN tokens[1]
    ELSE tokens[1] \o <<"\t">> \o JoinTabs(Tail(tokens))

\* A terminated line of the given tokens.
TabLine(tokens) == JoinTabs(tokens) \o <<"\n">>

Stamp      == <<"0", "0", ":", "0", "6", ":", "0", "0">>
LaterStamp == <<"0", "1", ":", "0", "0", ":", "0", "6">>
TwoPartStamp == <<"0", "0", ":", "0", "6">>
BadStamp   == <<"0", "x", ":", "0", "6", ":", "0", "0">>
WellLabel  == <<"A">>

\* n cell tokens: cell k reads k, but cell j (if any) reads `special`.
Cells(n, j, special) == [k \in 1..n |-> IF k = j THEN special ELSE <<Digits[k + 1]>>]

HeaderLines ==
    { OD600 \o <<"\n">>,                       \* prefix and length 4
      RATIO \o <<"\n">>,                       \* prefix only
      TIME \o <<"\t", "A", "1", "\n">> }       \* length 8, holds "Time"

\* A last line without a terminator.
UnterminatedLines == { TIME, OD600 }

SkippedLines ==
    { <<"\n">>,
      TIME \o <<"\t", "A", "1", "\t", "A", "2", "\n">> }

DataLines ==
    { TabLine(<<Stamp>>) }
    \cup { TabLine(<<Stamp, WellLabel>> \o Cells(n, j, OVRFLW)) :
             n \in 0..MaxCells, j \in {0, 1, MaxCells} }
    \cup { TabLine(<<LaterStamp, WellLabel>> \o Cells(MaxCells + 1, 0, OVRFLW)),
           TabLine(<<TwoPartStamp, WellLabel>> \o Cells(MaxCells + 1, 0, OVRFLW)),
           TabLine(<<BadStamp, WellLabel>> \o Cells(MaxCells + 1, 0, OVRFLW)),
           TabLine(<<Stamp, WellLabel>> \o Cells(MaxCells + 1, 2, <<"x">>)) }

Lines == HeaderLines \cup UnterminatedLines \cup SkippedLines \cup DataLines

\* The lines by the branch the loop body takes on them (lines 35, 44).
HeaderInput == {l \in Lines : IsHeader(l)}
DataInput == {l \in Lines : IsData(l)}
SkippedInput == {l \in Lines : IsSkipped(l)}

\* Line 45, for every data line.
ElementOf == [l \in DataInput |-> Element(l)]

\* Line 51, for every data line.
TimeSplitOf == [l \in DataInput |-> Split(ElementOf[l][1], ":")]

\* The tokens float() is applied to (lines 53-55, 69), and what it makes of
\* each: whether it succeeds, and its value.
FloatInput ==
    UNION {{ElementOf[l][k] : k \in 1..Len(ElementOf[l])} : l \in DataInput}
    \cup UNION {{TimeSplitOf[l][k] : k \in 1..Len(TimeSplitOf[l])} : l \in DataInput}

IsNumeral == [s \in FloatInput |-> CanFloat(s)]

NumeralValue == [s \in FloatInput |-> IF CanFloat(s) THEN FloatOf(s) ELSE 0]

\* Whether the file has ended: the line just read has no terminator, so it was
\* the last one.
Unterminated(l) == l # <<>> /\ l[Len(l)] # "\n"

-----------------------------------------------------------------------------
\* The data branch (lines 45-69).  A token list is 0-based in the code and
\* 1-based here: element[k] of the code is el[k + 1].

\* A variant of Offset that strides by the number of rows.
OffsetRowStride(row_i, column_i) == n_rows * row_i + 1 + 1 + column_i

\* A variant of Offset that takes the data to begin right after the timestamp.
OffsetNoLabel(row_i, column_i) == n_columns * row_i + 1 + column_i

\* Lines 66, 69: the index into element of the cell (row_i, column_i).
Offset(row_i, column_i) == n_columns * row_i + 1 + 1 + column_i

\* The k-th cell the loops of lines 60-61 visit, k from 0.
RowOf(k) == k \div n_columns
ColumnOf(k) == k % n_columns
CellOffset(k) == Offset(RowOf(k), ColumnOf(k))

\* Lines 66-69: what the visit of cell k raises, "none" if nothing.
CellError(el, k) ==
    IF CellOffset(k) >= Len(el) THEN "IndexError"
    ELSE IF el[CellOffset(k) + 1] = OVRFLW THEN "none"
    ELSE IF IsNumeral[el[CellOffset(k) + 1]] THEN "none"
    ELSE "ValueError"

\* Lines 66-69: what the visit of cell k stores, when it raises nothing.
CellValue(el, k) ==
    IF el[CellOffset(k) + 1] = OVRFLW THEN NaN
    ELSE Float(NumeralValue[el[CellOffset(k) + 1]])

\* The first cell whose visit raises; n_rows * n_columns if none does.
FirstBadCell(el) ==
    LET bad == {k \in 0..(n_rows * n_columns - 1) : CellError(el, k) # "none"}
    IN  IF bad = {} THEN n_rows * n_columns
        ELSE CHOOSE k \in bad : \A m \in bad : k <= m

\* A variant of WriteCells that stores a row at every time index of its well.
WriteCellsAllTimes(grid, el, t) ==
    LET bad == FirstBadCell(el)
    IN  [x \in DOMAIN grid |->
            LET k == n_columns * x[1] + x[2]
            IN  IF k < bad THEN CellValue(el, k) ELSE grid[x]]

\* Lines 60-69: the grid after the loops have run up to the first cell that
\* raises.  Line 64-65 stores NaN into that cell before line 66 raises.
WriteCells(grid, el, t) ==
    LET bad == FirstBadCell(el)
    IN  [x \in DOMAIN grid |->
            LET k == n_columns * x[1] + x[2]
            IN  IF x[3] # t THEN grid[x]
                ELSE IF k < bad THEN CellValue(el, k)
                ELSE IF k = bad /\ Len(el) = 1 THEN NaN
                ELSE grid[x]]

\* Lines 51-55: what the conversion of the timestamp raises, "none" if nothing.
TimestampError(time_split) ==
    IF Len(time_split) < 3 THEN "IndexError"
    ELSE IF \A k \in 1..3 : IsNumeral[time_split[k]] THEN "none"
    ELSE "ValueError"

\* Lines 53-55: h, in units of 1/3600 hour.
Hours(time_split) ==
    3600 * NumeralValue[time_split[1]] + 60 * NumeralValue[time_split[2]]
        + NumeralValue[time_split[3]]

\* A variant of OrphanOutcome that passes over a data line with no channel open.
OrphanIgnored ==
    [error |-> "none", time_i |-> time_i,
     data_dict |-> data_dict, time_dict |-> time_dict]

\* Line 49 with time_i unassigned: UnboundLocalError, nothing else done.
OrphanOutcome ==
    [error |-> "UnboundLocalError", time_i |-> time_i,
     data_dict |-> data_dict, time_dict |-> time_dict]

\* A variant of OutOfCapacity whose bound is one too high.
OutOfCapacityLate(t) == t > n_time_points + 1

\* Line 57: whether index t is outside the time vector.
OutOfCapacity(t) == t \notin DOMAIN time_dict[read]

\* Lines 45-69 with a channel open.
OpenOutcome(l) ==
    LET el == ElementOf[l]
        t  == time_i + 1
        time_split == TimeSplitOf[l]
        td == Put(time_dict, read,
                  [time_dict[read] EXCEPT ![t] = Float(Hours(time_split))])
    IN  IF TimestampError(time_split) # "none" THEN
            [error |-> TimestampError(time_split), time_i |-> t,
             data_dict |-> data_dict, time_dict |-> time_dict]
        ELSE IF OutOfCapacity(t) THEN
            [error |-> "IndexError", time_i |-> t,
             data_dict |-> data_dict, time_dict |-> time_dict]
        ELSE
            [error |-> LET bad == FirstBadCell(el)
                       IN  IF bad < n_rows * n_columns THEN CellError(el, bad)
                           ELSE "none",
             time_i |-> t,
             data_dict |-> Put(data_dict, read, WriteCells(data_dict[read], el, t)),
             time_dict |-> td]

Outcome(l) == IF time_i = Unbound THEN OrphanOutcome ELSE OpenOutcome(l)

-----------------------------------------------------------------------------
\* The state machine.

\* Lines 25-30.  Before the loop i, line, read and time_i are unassigned; the
\* model holds -1, the empty line, NoRead and Unbound for them.
Init ==
    /\ n_rows \in 1..MaxCells
    /\ n_columns \in 1..MaxCells
    /\ n_rows * n_columns <= MaxCells
    /\ total_run_time \in 1..MaxRunTime
    /\ sampling_rate = 2
    /\ n_time_points = NTimePoints(total_run_time, sampling_rate)
    /\ prev_line = <<>>
    /\ line = <<>>
    /\ i = -1
    /\ read = NoRead
    /\ time_i = Unbound
    /\ data_dict = <<>>
    /\ time_dict = <<>>
    /\ pc = "loop"
    /\ error = "none"

\* Line 32: the loop takes the next line l of the file.
Take(l) ==
    /\ pc = "loop"
    /\ ~Unterminated(line)
    /\ i + 1 < MaxLines
    /\ i' = i + 1
    /\ prev_line' = line
    /\ line' = l
    /\ UNCHANGED <<n_rows, n_columns, total_run_time, sampling_rate, n_time_points>>

\* Lines 35-42: a header line opens (or resets) its channel.
HeaderLine ==
    \E l \in HeaderInput :
        /\ Take(l)
        /\ time_i' = -1
        /\ read' = ReadName(l)
        /\ data_dict' = Allocate(data_dict, ReadName(l), FreshGrid)
        /\ time_dict' = Allocate(time_dict, ReadName(l), FreshTime)
        /\ UNCHANGED <<pc, error>>

\* Lines 44-69: a data line, stored or raising.
DataLine ==
    \E l \in DataInput :
        /\ Take(l)
        /\ LET o == Outcome(l)
           IN  /\ time_i' = o.time_i
               /\ data_dict' = o.data_dict
               /\ time_dict' = o.time_dict
               /\ error' = o.error
               /\ pc' = IF o.error = "none" THEN "loop" ELSE "failed"
        /\ UNCHANGED read

\* Neither branch: a blank line, or a line holding "Time".
SkippedLine ==
    \E l \in SkippedInput :
        /\ Take(l)
        /\ UNCHANGED parser

\* Line 73: the file has ended (here or earlier) and the mappings are returned.
Return ==
    /\ pc = "loop"
    /\ pc' = "returned"
    /\ UNCHANGED <<n_rows, n_columns, total_run_time, sampling_rate, n_time_points,
                   prev_line, line, i, read, time_i, data_dict, time_dict, error>>

Next == HeaderLine \/ DataLine \/ SkippedLine \/ Return

Spec == Init /\ [][Next]_vars

-----------------------------------------------------------------------------
\* Vocabulary of the properties.

\* T of the specification: floor(total_run_time / sampling_rate).
T == total_run_time \div sampling_rate

\* A step of the loop: one more line has been taken, and line' is that line.
TakesLine == i' = i + 1

\* The wells of the plate.
Wells == (0..(n_rows - 1)) \X (0..(n_columns - 1))

\* The token of data line l at a flat offset (from 0).
TokenAt(l, offset) == ElementOf[l][offset + 1]

TokenCount(l) == Len(ElementOf[l])

\* The timestamp of data line l is H:M:S, each part a numeral.
GoodStamp(l) ==
    /\ Len(Split(ElementOf[l][1], ":")) >= 3
    /\ \A k \in 1..3 : CanFloat(Split(ElementOf[l][1], ":")[k])

\* What the timestamp of l comes to, in units of 1/3600 hour.
StampValue(l) ==
    LET p == Split(ElementOf[l][1], ":")
    IN  Float(3600 * FloatOf(p[1]) + 60 * FloatOf(p[2]) + FloatOf(p[3]))

\* Every token of l from offset 2 on, up to the last one the plate uses, is
\* "OVRFLW" or a numeral.
GoodCells(l) ==
    \A k \in 2..(Min(TokenCount(l), 2 + n_rows * n_columns) - 1) :
        TokenAt(l, k) = OVRFLW \/ CanFloat(TokenAt(l, k))

\* What a cell token is stored as.
Stored(tok) == IF tok = OVRFLW THEN NaN ELSE Float(FloatOf(tok))

\* A channel is open and has room for one more data row.
HasRoom == read # NoRead /\ time_i < T

-----------------------------------------------------------------------------
\* C1: when Organize returns, every channel of the grid mapping has shape
\* (n_rows, n_columns, T+1) and every channel of the time mapping has length
\* T+1, with T = floor(total_run_time / sampling_rate); the two mappings have
\* the same keys, and the keys are the names of the header lines read: a
\* header adds its name, no other line changes the keys.
C1_Shapes ==
    /\ [](pc = "returned" =>
            /\ DOMAIN data_dict = DOMAIN time_dict
            /\ \A k \in DOMAIN data_dict :
                  /\ DOMAIN data_dict[k] =
                        (0..(n_rows - 1)) \X (0..(n_columns - 1)) \X (0..T)
                  /\ DOMAIN time_dict[k] = 0..T)
    /\ [][TakesLine =>
            /\ DOMAIN data_dict' = DOMAIN time_dict'
            /\ DOMAIN data_dict' =
                  (DOMAIN data_dict)
                      \cup (IF IsHeader(line') THEN {DropLast(line')} ELSE {})]_vars

\* Organize has returned two channels, one of them with a stored row.
C1_Witness ==
    /\ pc = "returned"
    /\ Cardinality(DOMAIN data_dict) >= 2
    /\ \E k \in DOMAIN time_dict : \E t \in DOMAIN time_dict[k] : ~time_dict[k][t].nan

\* C2: a data row with at least 2 + n_rows*n_columns tokens that is stored at
\* time index t leaves, in every cell (r, c, t) of the open channel, NaN if
\* the token at offset n_columns*r + 2 + c is "OVRFLW" and the value of that
\* token otherwise.
C2_CellsFromOffsets ==
    [][(/\ TakesLine
        /\ line' \in DataInput
        /\ TokenCount(line') >= 2 + n_rows * n_columns
        /\ pc' = "loop")
       => \A w \in Wells :
             data_dict'[read'][<<w[1], w[2], time_i'>>]
                 = Stored(TokenAt(line', n_columns * w[1] + 2 + w[2]))]_vars

\* A stored row of a two-row plate with an overflowed well and a read one.
C2_Witness ==
    /\ pc = "loop"
    /\ line \in DataInput
    /\ n_rows >= 2
    /\ TokenCount(line) >= 2 + n_rows * n_columns
    /\ \E w \in Wells :
          /\ TokenAt(line, n_columns * w[1] + 2 + w[2]) = OVRFLW
          /\ data_dict[read][<<w[1], w[2], time_i>>] = NaN
    /\ \E w \in Wells : ~data_dict[read][<<w[1], w[2], time_i>>].nan

\* C3: a data row of one token, a well-formed timestamp, met while a channel
\* is open and has room, is accepted, and every cell of the open channel at
\* the row's time index is NaN.
C3_LoneTimestampAccepted ==
    [][(/\ TakesLine
        /\ line' \in DataInput
        /\ TokenCount(line') = 1
        /\ GoodStamp(line')
        /\ HasRoom)
       => /\ pc' = "loop"
          /\ \A w \in Wells : data_dict'[read][<<w[1], w[2], time_i + 1>>] = NaN]_vars

\* C4, as claimed: every line that holds "Time" leaves the parser state as it
\* was, whatever its prefix and length.
C4_TimeLineAlwaysSkipped ==
    [][(TakesLine /\ Contains(line', TIME)) => UNCHANGED parser]_vars

\* C4, amended: a line that holds "Time" and does not pass the header test
\* (none of the five prefixes, length neither 4 nor 8) leaves the parser
\* state as it was; one that passes the header test opens the channel of its
\* name, as any header does.
C4_TimeLineSkippedUnlessHeader ==
    [][(TakesLine /\ Contains(line', TIME))
       => IF IsHeader(line')
          THEN /\ read' = DropLast(line')
               /\ time_i' = -1
               /\ \A x \in DOMAIN data_dict'[read'] : data_dict'[read'][x] = NaN
          ELSE UNCHANGED parser]_vars

\* A "Time" line that is no header has been passed over after a stored row.
C4_Witness ==
    /\ pc = "loop"
    /\ Contains(line, TIME)
    /\ ~IsHeader(line)
    /\ prev_line \in DataInput
    /\ time_i >= 0

\* C5: a blank line leaves the parser state as it was (no channel allocated
\* or reset); after a blank line that follows a stored data row, that row
\* sits at the current time index k of the open channel, and the data row
\* that follows the blank line is stored at index k + 1 of the same channel.
C5_BlankLineBetweenRows ==
    /\ []((pc = "loop" /\ line = <<"\n">> /\ prev_line \in DataInput)
            => /\ time_i >= 0
               /\ time_dict[read][time_i] = StampValue(prev_line))
    /\ [][/\ (TakesLine /\ line' = <<"\n">>) => UNCHANGED parser
          /\ (TakesLine /\ line = <<"\n">> /\ line' \in DataInput /\ pc' = "loop")
                => /\ read' = read
                   /\ time_i' = time_i + 1
                   /\ time_dict'[read][time_i + 1] = StampValue(line')
                   /\ DOMAIN data_dict' = DOMAIN data_dict]_vars

\* The second of two stored rows of a channel, a blank line before it.
C5_Witness ==
    /\ pc = "loop"
    /\ line \in DataInput
    /\ prev_line = <<"\n">>
    /\ time_i >= 1
    /\ ~time_dict[read][time_i - 1].nan
    /\ ~time_dict[read][time_i].nan

\* C6: a header line whose name is bound already replaces the grid and the
\* time vector of that name by all-NaN arrays and restarts the time index, so
\* that the next stored data row is at index 0.
C6_HeaderResetsChannel ==
    [][/\ (TakesLine /\ IsHeader(line') /\ DropLast(line') \in DOMAIN data_dict)
            => /\ read' = DropLast(line')
               /\ time_i' = -1
               /\ \A x \in DOMAIN data_dict'[read'] : data_dict'[read'][x] = NaN
               /\ \A t \in DOMAIN time_dict'[read'] : time_dict'[read'][t] = NaN
       /\ (TakesLine /\ IsHeader(line) /\ line' \in DataInput /\ pc' = "loop")
            => /\ time_i' = 0
               /\ time_dict'[read][0] = StampValue(line')
               /\ \A t \in DOMAIN time_dict'[read] :
                     t # 0 => time_dict'[read][t] = NaN]_vars

\* The only channel had a row stored and has then been named by a header
\* again.
C6_Witness ==
    /\ pc = "loop"
    /\ IsHeader(line)
    /\ prev_line \in DataInput
    /\ DOMAIN data_dict = {DropLast(line)}
    /\ \A t \in DOMAIN time_dict[read] : time_dict[read][t] = NaN

\* C7: a data line met before any header line makes the parse fail at that
\* line, and a failed parse never returns.
C7_OrphanRowFails ==
    [][/\ (TakesLine /\ line' \in DataInput /\ read = NoRead)
            => /\ pc' = "failed"
               /\ error' = "UnboundLocalError"
               /\ data_dict' = <<>>
               /\ time_dict' = <<>>
       /\ pc = "failed" => pc' = "failed"]_vars

\* The parse has failed on a data line with no channel open.
C7_Witness ==
    /\ pc = "failed"
    /\ error = "UnboundLocalError"
    /\ line \in DataInput
    /\ read = NoRead

\* C8: a channel takes T + 1 data rows, at time indices 0..T: a well-formed
\* row is stored at the next index while there is room; a further row makes
\* the parse fail, storing nothing; the time index never leaves -1..T while
\* the parse goes on, and a failed parse never returns.
C8_Capacity ==
    /\ [](pc # "failed" /\ time_i # Unbound => time_i \in (-1)..T)
    /\ [][/\ (/\ TakesLine
              /\ line' \in DataInput
              /\ HasRoom
              /\ TokenCount(line') >= 2 + n_rows * n_columns
              /\ GoodStamp(line')
              /\ GoodCells(line'))
                => /\ pc' = "loop"
                   /\ time_i' = time_i + 1
                   /\ time_dict'[read][time_i + 1] = StampValue(line')
          /\ (TakesLine /\ line' \in DataInput /\ time_i = T)
                => /\ pc' = "failed"
                   /\ data_dict' = data_dict
                   /\ time_dict' = time_dict
          /\ pc = "failed" => pc' = "failed"]_vars

\* The parse has failed on the row after the last one a channel has room for.
C8_Witness ==
    /\ pc = "failed"
    /\ error = "IndexError"
    /\ time_i = T + 1
    /\ line \in DataInput
    /\ GoodStamp(line)
    /\ \A t \in DOMAIN time_dict[read] : ~time_dict[read][t].nan

\* C9, as claimed: a data row whose token count is not 2 + n_rows*n_columns
\* makes the parse fail.
C9_MismatchedRowFails ==
    [][(/\ TakesLine
        /\ line' \in DataInput
        /\ TokenCount(line') # 2 + n_rows * n_columns)
       => pc' = "failed"]_vars

\* C9, amended: a data row with fewer than 2 + n_rows*n_columns tokens makes
\* the parse fail, by an out-of-range access when a channel has room and the
\* tokens it has are well-formed; a row with more tokens is not refused for
\* that: when a channel has room and its tokens are well-formed it is stored,
\* the cells read from offsets 2 .. 1 + n_rows*n_columns.
C9_ShortRowFailsLongRowStored ==
    [][/\ (/\ TakesLine
           /\ line' \in DataInput
           /\ TokenCount(line') < 2 + n_rows * n_columns)
            => /\ pc' = "failed"
               /\ (HasRoom /\ GoodStamp(line') /\ GoodCells(line'))
                     => error' = "IndexError"
       /\ (/\ TakesLine
           /\ line' \in DataInput
           /\ TokenCount(line') > 2 + n_rows * n_columns
           /\ HasRoom
           /\ GoodStamp(line')
           /\ GoodCells(line'))
            => /\ pc' = "loop"
               /\ \A w \in Wells :
                     data_dict'[read][<<w[1], w[2], time_i + 1>>]
                         = Stored(TokenAt(line', n_columns * w[1] + 2 + w[2]))
       /\ pc = "failed" => pc' = "failed"]_vars

\* A row with more tokens than the plate has wells has been stored.
C9_Witness ==
    /\ pc = "loop"
    /\ line \in DataInput
    /\ TokenCount(line) > 2 + n_rows * n_columns
    /\ time_i >= 0
    /\ \A w \in Wells : ~data_dict[read][<<w[1], w[2], time_i>>].nan

\* C10: a line changes the arrays of no channel but the one open after it,
\* and a data line changes no entry of the open channel at a time index
\* other than the row's own.
C10_WritesOnlyOpenChannel ==
    [][TakesLine
       => /\ \A k \in DOMAIN data_dict :
                k # read' => /\ k \in DOMAIN data_dict'
                             /\ k \in DOMAIN time_dict'
                             /\ data_dict'[k] = data_dict[k]
                             /\ time_dict'[k] = time_dict[k]
          /\ (line' \in DataInput /\ read # NoRead)
                => /\ read' = read
                   /\ \A x \in DOMAIN data_dict[read] :
                         x[3] # time_i + 1 => data_dict'[read][x] = data_dict[read][x]
                   /\ \A t \in DOMAIN time_dict[read] :
                         t # time_i + 1 => time_dict'[read][t] = time_dict[read][t]]_vars

\* The open channel holds two stored rows, the second just stored, beside
\* another channel.
C10_Witness ==
    /\ pc = "loop"
    /\ line \in DataInput
    /\ time_i >= 1
    /\ ~data_dict[read][<<0, 0, 0>>].nan
    /\ \E k \in DOMAIN data_dict : k # read

====
